---- MODULE Spec2Model ----
(***************************************************************************)
(* pipette: reads the cards of one Anki deck, counts them, renders one     *)
(* HTML fragment per card and substitutes five tokens into a template.     *)
(* The model follows src/src/main.rs statement by statement.  Strings are  *)
(* TLA+ strings; Len, SubSeq and \o act on them character by character.    *)
(***************************************************************************)
EXTENDS Integers, Sequences, FiniteSets, TLC

\* The most rows the Record Source delivers in one run.
MaxRows == 2

----------------------------------------------------------------------------
(* Strings. *)

\* The field separator '\x1f' (ASCII unit separator) of line 84: a string
\* holding that one control character between the quotes.
US == ""

Digits == <<"0", "1", "2", "3", "4", "5", "6", "7", "8", "9">>

\* Display of an unsigned integer, as "{}" formats usize and u32.
RECURSIVE ToDecimal(_)
ToDecimal(n) ==
    IF n < 10 THEN Digits[n + 1]
    ELSE ToDecimal(n \div 10) \o Digits[(n % 10) + 1]

\* The positions at which pat occurs in s.
Occurrences(s, pat) ==
    {i \in 1..(Len(s) - Len(pat) + 1) : SubSeq(s, i, i + Len(pat) - 1) = pat}

Contains(s, pat) == Occurrences(s, pat) # {}

SetMin(S) == CHOOSE i \in S : \A j \in S : i <= j

\* str::split(sep): the pieces between the non-overlapping occurrences of
\* sep, left to right; a string without sep is its own single piece.
RECURSIVE Split(_, _)
Split(s, sep) ==
    LET occ == Occurrences(s, sep) IN
    IF occ = {} THEN <<s>>
    ELSE LET i == SetMin(occ) IN
         <<SubSeq(s, 1, i - 1)>> \o Split(SubSeq(s, i + Len(sep), Len(s)), sep)

\* str::replace(from, to) for a non-empty from: every non-overlapping
\* occurrence of from, found left to right, becomes to; to is not rescanned.
RECURSIVE Replace(_, _, _)
Replace(s, from, to) ==
    LET occ == Occurrences(s, from) IN
    IF occ = {} THEN s
    ELSE LET i == SetMin(occ) IN
         SubSeq(s, 1, i - 1) \o to \o Replace(SubSeq(s, i + Len(from), Len(s)), from, to)

----------------------------------------------------------------------------
(* Queue and Card. *)

Queues == {"New", "Learning", "Review"}

\* Queue::class
class(queue) ==
    CASE queue = "New" -> "new"
      [] queue = "Learning" -> "learning"
      [] queue = "Review" -> "review"

TryFromDefaultLearning(value) ==
    CASE value = 0 -> "New"
      [] value = 2 -> "Review"
      [] OTHER -> "Learning"

\* impl TryFrom<u8> for Queue: the Queue of a code, or "Err" for Err(()).
TryFrom(value) ==
    CASE value = 0 -> "New"
      [] value \in {1, 3} -> "Learning"
      [] value = 2 -> "Review"
      [] OTHER -> "Err"

\* The largest u8, the type queue is read as (line 88).
U8Max == 255

\* Whether an INTEGER column decodes as u32, the type of reps and lapses:
\* rusqlite refuses a value outside 0..2^32-1.  Every integer of the model
\* is below 2^31, so only the lower limit can refuse one here.
DecodesAsU32(value) == value >= 0

\* A column of a row as SQLite stores it: TEXT, or another storage class
\* that row.get::<_, String> does not decode.
Text(s) == [type |-> "text", v |-> s]
Null == [type |-> "null", v |-> ""]

RawRow(flds, queue, reps, lapses) ==
    [flds |-> flds, queue |-> queue, reps |-> reps, lapses |-> lapses]

\* The closure given to query_map: the columns are decoded in the order the
\* struct literal names them; a column that does not decode returns Err
\* through `?`, a code that try_into rejects panics in expect.
ExtractCard(row) ==
    IF row.flds.type # "text" THEN [kind |-> "Err"]
    ELSE IF row.queue \notin 0..U8Max THEN [kind |-> "Err"]
    ELSE IF TryFrom(row.queue) = "Err" THEN [kind |-> "panic"]
    ELSE IF ~DecodesAsU32(row.reps) THEN [kind |-> "Err"]
    ELSE IF ~DecodesAsU32(row.lapses) THEN [kind |-> "Err"]
    ELSE [kind |-> "Ok",
          card |-> [fields |-> Split(row.flds.v, US),
                    queue |-> TryFrom(row.queue),
                    reps |-> row.reps,
                    lapses |-> row.lapses]]

LearnedOrLearning(card) == card.queue \in {"Review", "Learning"}

\* card.queue == Queue::Review
Learned(card) == card.queue = "Review"

FragmentCountersSwapped(card) ==
    "<a href='https://jisho.org/search/" \o card.fields[1] \o "' class='card-link'>"
    \o "<div class='card card-" \o class(card.queue) \o "'>" \o card.fields[1]
    \o "<div class='card-hover'>"
    \o "<div class='card-meaning'>" \o card.fields[2] \o "; " \o card.fields[3] \o "</div>\n"
    \o "                        reviews: " \o ToDecimal(card.lapses) \o "<br/>\n"
    \o "                        lapses: " \o ToDecimal(card.reps) \o "<br/>\n"
    \o "                    </div>"
    \o "</div>"
    \o "</a>\n"

\* The format! of lines 107-123, for a card with at least three fields
\* (fields[0], fields[1], fields[2] are fields[1..3] here).  A `\` at the
\* end of a source line drops the line break and the next line's indent;
\* the three lines without it keep both.
Fragment(card) ==
    "<a href='https://jisho.org/search/" \o card.fields[1] \o "' class='card-link'>"
    \o "<div class='card card-" \o class(card.queue) \o "'>" \o card.fields[1]
    \o "<div class='card-hover'>"
    \o "<div class='card-meaning'>" \o card.fields[2] \o "; " \o card.fields[3] \o "</div>\n"
    \o "                        reviews: " \o ToDecimal(card.reps) \o "<br/>\n"
    \o "                        lapses: " \o ToDecimal(card.lapses) \o "<br/>\n"
    \o "                    </div>"
    \o "</div>"
    \o "</a>\n"

----------------------------------------------------------------------------
(* Aggregation and formatting. *)

\* A natural number in binary, most significant bit first; <<>> is zero.
RECURSIVE NatBits(_)
NatBits(n) == IF n = 0 THEN <<>> ELSE Append(NatBits(n \div 2), n % 2)

RECURSIVE BitsNat(_)
BitsNat(bits) ==
    IF bits = <<>> THEN 0
    ELSE 2 * BitsNat(SubSeq(bits, 1, Len(bits) - 1)) + bits[Len(bits)]

\* bits + 1: the last 0 becomes 1 and the 1s after it become 0.
BitsInc(bits) ==
    LET zeros == {i \in 1..Len(bits) : bits[i] = 0} IN
    IF zeros = {} THEN <<1>> \o [i \in 1..Len(bits) |-> 0]
    ELSE LET last == CHOOSE i \in zeros : \A j \in zeros : j <= i
         IN [i \in 1..Len(bits) |->
                IF i < last THEN bits[i] ELSE IF i = last THEN 1 ELSE 0]

ShiftLeft(bits, k) == bits \o [i \in 1..k |-> 0]

\* The k lowest bits of n.
LowBits(n, k) == [i \in 1..k |-> (n \div 2^(k - i)) % 2]

\* bits * 100 + carry, worked out sixteen bits at a time from the low end.
RECURSIVE Times100Carry(_, _)
Times100Carry(bits, carry) ==
    IF bits = <<>> THEN NatBits(carry)
    ELSE LET k == IF Len(bits) < 16 THEN Len(bits) ELSE 16
             chunk == BitsNat(SubSeq(bits, Len(bits) - k + 1, Len(bits)))
             sum == 100 * chunk + carry
         IN Times100Carry(SubSeq(bits, 1, Len(bits) - k), sum \div 2^k)
            \o LowBits(sum, k)

\* bits * 100, for bits that start with 1.
Times100(bits) == Times100Carry(bits, 0)

\* The significand of an f64 has 53 bits.
MantissaBits == 53

\* An f64: the finite value mant * 2^(-scale), mant of 53 bits with the first
\* bit 1 (or <<>> for 0.0), or NaN, or +inf.  The counts are far from the
\* range where an f64 is subnormal or overflows.
Finite(mant, scale) == [kind |-> "finite", mant |-> mant, scale |-> scale]
Zero == Finite(<<>>, 0)
NaN == [kind |-> "NaN", mant |-> <<>>, scale |-> 0]
Infinity == [kind |-> "inf", mant |-> <<>>, scale |-> 0]
Unset == [kind |-> "unset", mant |-> <<>>, scale |-> 0]

\* Round to nearest, ties to even: the f64 nearest to bits * 2^(-scale),
\* bits starting with 1; sticky tells that the exact value has further
\* non-zero bits below those of bits.
F64Round(bits, scale, sticky) ==
    IF Len(bits) <= MantissaBits
    THEN Finite(ShiftLeft(bits, MantissaBits - Len(bits)),
                scale + MantissaBits - Len(bits))
    ELSE LET drop == Len(bits) - MantissaBits
             kept == SubSeq(bits, 1, MantissaBits)
             guard == bits[MantissaBits + 1]
             rest == sticky \/ \E i \in (MantissaBits + 2)..Len(bits) : bits[i] = 1
             up == guard = 1 /\ (rest \/ kept[MantissaBits] = 1)
             m == IF up THEN BitsInc(kept) ELSE kept
         IN IF Len(m) > MantissaBits
            THEN Finite(SubSeq(m, 1, MantissaBits), scale - drop - 1)
            ELSE Finite(m, scale - drop)

\* Long division, a bit of the quotient per bit of the dividend: the bits
\* lo..hi of the quotient of num by b and the remainder after them, given
\* the remainder brought into bit lo.
RECURSIVE DivRange(_, _, _, _, _)
DivRange(num, lo, hi, b, rem) ==
    IF lo = hi
    THEN LET r == 2 * rem + num[lo]
             bit == IF r >= b THEN 1 ELSE 0
         IN [quot |-> <<bit>>, rem |-> r - bit * b]
    ELSE LET mid == (lo + hi) \div 2
             high == DivRange(num, lo, mid, b, rem)
             low == DivRange(num, mid + 1, hi, b, high.rem)
         IN [quot |-> high.quot \o low.quot, rem |-> low.rem]

\* bits without its leading zeros.
Significant(bits) ==
    LET ones == {i \in 1..Len(bits) : bits[i] = 1} IN
    IF ones = {} THEN <<>>
    ELSE SubSeq(bits, CHOOSE i \in ones : \A j \in ones : i <= j, Len(bits))

\* a as f64 / b as f64 for two counts: IEEE 754 division does not trap;
\* 0.0 / 0.0 is NaN, x / 0.0 is +inf, and a quotient is rounded to an f64.
\* The quotient is taken to more binary places than an f64 holds, then
\* rounded once.
F64Div(a, b) ==
    IF b = 0 THEN (IF a = 0 THEN NaN ELSE Infinity)
    ELSE IF a = 0 THEN Zero
    ELSE LET places == MantissaBits + 1 + Len(NatBits(b))
             num == ShiftLeft(NatBits(a), places)
             d == DivRange(num, 1, Len(num), b, 0)
         IN F64Round(Significant(d.quot), places, d.rem # 0)

\* x * 100.0, rounded to an f64; NaN and +inf stay what they are.
F64Times100(x) ==
    IF x.kind # "finite" \/ x.mant = <<>> THEN x
    ELSE F64Round(Times100(x.mant), x.scale, FALSE)

LearnedPercentageInverted(learned, total) == F64Times100(F64Div(total, learned))

\* n_learned as f64 / n_cards as f64 * 100.0 (line 126): two operations,
\* each rounded.
LearnedPercentage(learned, total) == F64Times100(F64Div(learned, total))

\* A finite f64 in hundredths, the nearest whole number of them, ties to
\* even, decided on the exact value of the f64.
Hundredths(x) ==
    IF x.mant = <<>> THEN 0
    ELSE LET exact == IF x.scale >= 0 THEN Times100(x.mant)
                      ELSE ShiftLeft(Times100(x.mant), 0 - x.scale)
             frac == IF x.scale >= 0 THEN x.scale ELSE 0
             whole == Len(exact) - frac
             q == IF whole <= 0 THEN 0 ELSE BitsNat(SubSeq(exact, 1, whole))
             guard == IF frac = 0 \/ whole < 0 THEN 0 ELSE exact[whole + 1]
             rest == IF frac = 0 THEN FALSE
                     ELSE IF whole < 0 THEN TRUE
                     ELSE \E i \in (whole + 2)..Len(exact) : exact[i] = 1
         IN IF guard = 1 /\ (rest \/ q % 2 = 1) THEN q + 1 ELSE q

\* "{:.2}" of an f64: two decimals, the nearest to the exact value of the
\* f64, ties to even.
FormatFixed2(x) ==
    IF x.kind = "NaN" THEN "NaN"
    ELSE IF x.kind = "inf" THEN "inf"
    ELSE LET h == Hundredths(x)
         IN ToDecimal(h \div 100) \o "." \o Digits[((h \div 10) % 10) + 1]
            \o Digits[(h % 10) + 1]

\* to_formatted_string(&Locale::en): decimal digits in groups of three
\* separated by commas.
RECURSIVE ToFormattedString(_)
ToFormattedString(n) ==
    IF n < 1000 THEN ToDecimal(n)
    ELSE LET low == n % 1000 IN
         ToFormattedString(n \div 1000) \o "," \o Digits[(low \div 100) + 1]
         \o Digits[((low \div 10) % 10) + 1] \o Digits[(low % 10) + 1]

\* The console summary of lines 127-130.
Summary(learned, total, pct) ==
    "learned " \o ToDecimal(learned) \o "/" \o ToDecimal(total)
    \o " (" \o FormatFixed2(pct) \o "%)"

TokenNames == {"n_learned", "n_cards", "learned_percentage_pretty", "cards", "now"}

\* The HashMap of lines 132-146.
BuildTokens(learned, total, pct, cardsHtml, nowText) ==
    [name \in TokenNames |->
        CASE name = "n_learned" -> ToFormattedString(learned)
          [] name = "n_cards" -> ToFormattedString(total)
          [] name = "learned_percentage_pretty" -> FormatFixed2(pct)
          [] name = "cards" -> cardsHtml
          [] name = "now" -> nowText]

PlaceholderBare(token) == token

\* format!("{{{}}}", token)
Placeholder(token) == "{" \o token \o "}"

----------------------------------------------------------------------------
(* Inputs: the rows the Record Source may deliver, the clock, the files. *)

\* Two notes of the kind the deck holds, the fields transliterated to ASCII.
Japan == RawRow(Text("nihon" \o US \o "nihon" \o US \o "Japan"), 2, 5, 0)
Cat == RawRow(Text("neko" \o US \o "neko" \o US \o "cat"), 0, 0, 0)
\* A note whose first field is text of the form {token}.
Braces == RawRow(Text("{n_cards}" \o US \o "kazu" \o US \o "count"), 1, 1, 2)
\* A note with a fourth field, in the relearning queue.
Dog == RawRow(Text("inu" \o US \o "inu" \o US \o "dog" \o US \o "extra"), 3, 12, 3)
TwoFields == RawRow(Text("hon" \o US \o "book"), 2, 4, 1)
OneField == RawRow(Text(""), 0, 0, 0)
BadCode == RawRow(Text("ki" \o US \o "ki" \o US \o "tree"), 4, 0, 0)
BadCodeTwoFields == RawRow(Text("hon" \o US \o "book"), 7, 0, 0)
\* Anki stores -1 for a suspended card: not a u8.
Suspended == RawRow(Text("ki" \o US \o "ki" \o US \o "tree"), -1, 3, 0)
NullFields == RawRow(Null, 2, 0, 0)
BadReps == RawRow(Text("ki" \o US \o "ki" \o US \o "tree"), 2, -1, 0)
BadLapses == RawRow(Text("ki" \o US \o "ki" \o US \o "tree"), 2, 0, -1)

RawRows ==
    {Japan, Cat, Braces, Dog, TwoFields, OneField, BadCode, BadCodeTwoFields,
     Suspended, NullFields, BadReps, BadLapses}

\* Local::now().to_rfc3339()
Nows == {"2022-03-01T09:30:00+09:00", "2022-03-02T21:05:42+09:00"}

ExampleTemplate == "{n_cards} and {unknown_token}"

Templates ==
    {ExampleTemplate,
     "<p>{n_learned}/{n_cards} ({learned_percentage_pretty}%) at {now}</p>{cards}",
     "<h1>no tokens</h1>",
     "{{now}} {n_cards}{n_cards}",
     "{cards}{unknown_token}{cards}"}

\* What read_to_string finds at the template path.
TemplateFiles ==
    {[readable |-> TRUE, content |-> t] : t \in Templates}
    \cup {[readable |-> FALSE, content |-> ""]}

\* What is at the output path before the run.
NoFile == [exists |-> FALSE, content |-> ""]
File(content) == [exists |-> TRUE, content |-> content]
OutputFilesBefore == {NoFile, File("<p>previous report</p>")}

OutputPath == "./core2300.html"

\* The sizes at which the file system may stop taking bytes (a full disk,
\* a file size limit).
FileSizeLimits == {0, 10}

\* How many characters of doc a write may put in the file before it
\* returns: all of them, or as many as a limit below its length allows.
BytesTaken(doc) == {Len(doc)} \cup {k \in FileSizeLimits : k < Len(doc)}

----------------------------------------------------------------------------
(* The run of main. *)

VARIABLES
    rows,                \* the rows delivered by cards_iter so far
    n_cards, n_learned,  \* the counters of lines 96-97
    cards,               \* the String of line 98
    learned_percentage,  \* line 126
    tokens,              \* the HashMap of line 132
    stdout,              \* the lines printed
    template_file,       \* the template as read from the file
    template,            \* the String of line 149, rewritten by the loop
    pending,             \* the tokens the loop of line 150 has yet to visit
    output_file,         \* the file at the output path
    pc,                  \* "open", "rows", "template", "replace", "done"
    exit                 \* "running", "Ok", or how the run failed

vars ==
    <<rows, n_cards, n_learned, cards, learned_percentage, tokens, stdout,
      template_file, template, pending, output_file, pc, exit>>

NoTokens == [name \in {} |-> ""]

Init ==
    /\ rows = <<>>
    /\ n_cards = 0
    /\ n_learned = 0
    /\ cards = ""
    /\ learned_percentage = Unset
    /\ tokens = NoTokens
    /\ stdout = <<>>
    /\ template_file = ""
    /\ template = ""
    /\ pending = {}
    /\ output_file \in OutputFilesBefore
    /\ pc = "open"
    /\ exit = "running"

\* main returns Err through `?`, or panics: nothing after it runs.
Abort(how) ==
    /\ pc' = "done"
    /\ exit' = how

\* Lines 70-94: open the collection read-only, prepare and start the query.
OpenCollection ==
    /\ pc = "open"
    /\ \E opened \in BOOLEAN :
        IF opened THEN pc' = "rows" /\ UNCHANGED exit
        ELSE Abort("Err: collection")
    /\ UNCHANGED <<rows, n_cards, n_learned, cards, learned_percentage, tokens,
                   stdout, template_file, template, pending, output_file>>

\* One iteration of `for card in cards_iter` (lines 100-124) on the next row.
NextRow ==
    /\ pc = "rows"
    /\ Len(rows) < MaxRows
    /\ \E row \in RawRows :
        LET r == ExtractCard(row) IN
        /\ rows' = Append(rows, row)
        /\ CASE r.kind = "Err" ->
                 /\ Abort("Err: row")
                 /\ UNCHANGED <<n_cards, n_learned, cards>>
             [] r.kind = "panic" ->
                 /\ Abort("panic: cannot convert unexpected queue value")
                 /\ UNCHANGED <<n_cards, n_learned, cards>>
             [] r.kind = "Ok" ->
                 /\ n_learned' = IF Learned(r.card) THEN n_learned + 1 ELSE n_learned
                 /\ n_cards' = n_cards + 1
                 /\ IF Len(r.card.fields) < 3
                    THEN /\ Abort("panic: index out of bounds")
                         /\ UNCHANGED cards
                    ELSE /\ cards' = cards \o Fragment(r.card)
                         /\ UNCHANGED <<pc, exit>>
    /\ UNCHANGED <<learned_percentage, tokens, stdout, template_file, template,
                   pending, output_file>>

\* cards_iter is exhausted: lines 126-146.  println! panics when stdout
\* cannot be written.
EndOfRows ==
    /\ pc = "rows"
    /\ learned_percentage' = LearnedPercentage(n_learned, n_cards)
    /\ \E printed \in BOOLEAN :
        IF printed
        THEN /\ stdout' = Append(stdout, Summary(n_learned, n_cards, learned_percentage'))
             /\ \E now \in Nows :
                 tokens' = BuildTokens(n_learned, n_cards, learned_percentage', cards, now)
             /\ pc' = "template"
             /\ UNCHANGED exit
        ELSE /\ Abort("panic: failed printing to stdout")
             /\ UNCHANGED <<stdout, tokens>>
    /\ UNCHANGED <<rows, n_cards, n_learned, cards, template_file, template,
                   pending, output_file>>

ReadTemplateAfterCreate ==
    /\ pc = "template"
    /\ \E file \in TemplateFiles :
        IF file.readable
        THEN /\ template_file' = file.content
             /\ template' = file.content
             /\ pending' = DOMAIN tokens
             /\ pc' = "replace"
             /\ UNCHANGED <<exit, output_file>>
        ELSE /\ Abort("Err: template")
             /\ output_file' = File("")
             /\ UNCHANGED <<template_file, template, pending>>
    /\ UNCHANGED <<rows, n_cards, n_learned, cards, learned_percentage, tokens,
                   stdout>>

\* std::fs::read_to_string(template_path)? (lines 148-149)
ReadTemplate ==
    /\ pc = "template"
    /\ \E file \in TemplateFiles :
        IF file.readable
        THEN /\ template_file' = file.content
             /\ template' = file.content
             /\ pending' = DOMAIN tokens
             /\ pc' = "replace"
             /\ UNCHANGED exit
        ELSE /\ Abort("Err: template")
             /\ UNCHANGED <<template_file, template, pending>>
    /\ UNCHANGED <<rows, n_cards, n_learned, cards, learned_percentage, tokens,
                   stdout, output_file>>

\* One iteration of `for (token, value) in tokens.iter()` (lines 150-152):
\* a HashMap visits its entries in an order the run does not choose.
ApplyToken ==
    /\ pc = "replace"
    /\ \E token \in pending :
        /\ template' = Replace(template, Placeholder(token), tokens[token])
        /\ pending' = pending \ {token}
    /\ UNCHANGED <<rows, n_cards, n_learned, cards, learned_percentage, tokens,
                   stdout, template_file, output_file, pc, exit>>

\* Lines 154-158: println! panics when stdout cannot be written; then
\* std::fs::write creates or truncates the file (which may fail and leave
\* the file as it was) and writes the document, all of it or, when the
\* file system stops taking bytes, the part it took.
WriteOutput ==
    /\ pc = "replace"
    /\ pending = {}
    /\ \E printed \in BOOLEAN :
        IF ~printed
        THEN /\ Abort("panic: failed printing to stdout")
             /\ UNCHANGED <<stdout, output_file>>
        ELSE /\ stdout' = Append(stdout, "writing generated html to \"" \o OutputPath \o "\"")
             /\ \/ /\ UNCHANGED output_file
                   /\ Abort("Err: output")
                \/ \E taken \in BytesTaken(template) :
                     /\ output_file' = File(SubSeq(template, 1, taken))
                     /\ Abort(IF taken = Len(template) THEN "Ok" ELSE "Err: output")
    /\ UNCHANGED <<rows, n_cards, n_learned, cards, learned_percentage, tokens,
                   template_file, template, pending>>

Next ==
    \/ OpenCollection
    \/ NextRow
    \/ EndOfRows
    \/ ReadTemplate
    \/ ApplyToken
    \/ WriteOutput

Spec == Init /\ [][Next]_vars

----------------------------------------------------------------------------
(* Properties. *)

\* How a run ends when a row cannot be turned into a rendered card.
RowFailures ==
    {"Err: row", "panic: cannot convert unexpected queue value",
     "panic: index out of bounds"}

\* Every way the run fails before the output is written.
ProcessingFailures ==
    RowFailures
    \cup {"Err: collection", "Err: template", "panic: failed printing to stdout"}

ValidCodes == {0, 1, 2, 3}

\* The state the specification assigns to a valid code.
StateOfCode(c) ==
    CASE c = 0 -> "New"
      [] c = 1 -> "Learning"
      [] c = 3 -> "Learning"
      [] c = 2 -> "Review"

\* The rendering loop finished: every token of the map has been applied.
Rendered == pc = "replace" /\ pending = {}

\* C1: codes 0, 1, 2, 3 classify as New, Learning, Review, Learning; every
\* other code is refused, the run stops at that row, and the row is neither
\* counted nor rendered.
C1_Classification ==
    /\ \A c \in 0..U8Max :
        IF c \in ValidCodes THEN TryFrom(c) = StateOfCode(c)
        ELSE TryFrom(c) \notin Queues
    /\ \A i \in 1..Len(rows) :
        rows[i].queue \notin ValidCodes =>
            /\ i = Len(rows)
            /\ pc = "done"
            /\ exit \in {"Err: row", "panic: cannot convert unexpected queue value"}
            /\ ExtractCard(rows[i]).kind # "Ok"
            /\ n_cards = i - 1
            /\ n_learned <= i - 1
            /\ Len(Split(cards, "</a>\n")) = i

C1_Witness ==
    /\ Len(rows) = 2
    /\ rows[2] = BadCode
    /\ exit = "panic: cannot convert unexpected queue value"
    /\ n_cards = 1

\* C2: a run that fails while reading rows or the template leaves the file
\* at the output path as it was; the file changes only once every row was
\* processed, the template was read and every token was applied.
C2_NoPartialOutput ==
    /\ exit \in ProcessingFailures => output_file \in OutputFilesBefore
    /\ output_file \notin OutputFilesBefore =>
        /\ pc = "done"
        /\ exit \in {"Ok", "Err: output"}
        /\ pending = {}
        /\ DOMAIN tokens = TokenNames
        /\ n_cards = Len(rows)
        /\ \A i \in 1..Len(rows) :
            /\ ExtractCard(rows[i]).kind = "Ok"
            /\ Len(ExtractCard(rows[i]).card.fields) >= 3
        /\ exit = "Ok" => output_file = File(template)

C2_Witness ==
    /\ exit = "Err: template"
    /\ Len(rows) = 2
    /\ output_file = File("<p>previous report</p>")

\* C3: a row whose field string splits into fewer than three fields yields
\* no Card, is not counted and stops the run.
C3_MalformedRecordRejected ==
    \A i \in 1..Len(rows) :
        (rows[i].flds.type = "text" /\ Len(Split(rows[i].flds.v, US)) < 3) =>
            /\ ExtractCard(rows[i]).kind # "Ok"
            /\ n_cards = i - 1
            /\ exit \in RowFailures

\* C4: with no rows the run does not fault, reports 0 and 0, and the text
\* of the percentage in the token and in the summary is not the outcome of
\* the division 0.0 / 0.0.
C4_ZeroTotalDegenerate ==
    (DOMAIN tokens = TokenNames /\ n_cards = 0) =>
        /\ exit \notin RowFailures
        /\ tokens["n_cards"] = "0"
        /\ tokens["n_learned"] = "0"
        /\ tokens["learned_percentage_pretty"] # FormatFixed2(NaN)
        /\ ~Contains(stdout[1], FormatFixed2(NaN))

\* The loop of lines 150-152 when the HashMap yields its entries in `order`.
RECURSIVE RenderInOrder(_, _)
RenderInOrder(doc, order) ==
    IF order = <<>> THEN doc
    ELSE RenderInOrder(Replace(doc, Placeholder(Head(order)), tokens[Head(order)]),
                       Tail(order))

\* Every order in which a HashMap of the five tokens can yield them.
TokenOrders ==
    {o \in [1..Cardinality(TokenNames) -> TokenNames] :
        \A i, j \in DOMAIN o : o[i] = o[j] => i = j}

\* C5: the rendered document is the one every order of token application
\* produces.
C5_OrderNotObservable ==
    Rendered => \A o \in TokenOrders : RenderInOrder(template_file, o) = template

\* The known placeholders that start at position i of doc.
KnownAt(doc, i) ==
    {name \in TokenNames :
        /\ i + Len(Placeholder(name)) - 1 <= Len(doc)
        /\ SubSeq(doc, i, i + Len(Placeholder(name)) - 1) = Placeholder(name)}

\* One scan of doc, left to right: each placeholder of the template becomes
\* its token's value, and the values put in are not looked at again.
RECURSIVE SubstituteAll(_)
SubstituteAll(doc) ==
    LET at == {i \in 1..Len(doc) : KnownAt(doc, i) # {}} IN
    IF at = {} THEN doc
    ELSE LET i == SetMin(at)
             name == CHOOSE n \in KnownAt(doc, i) : TRUE
         IN SubSeq(doc, 1, i - 1) \o tokens[name]
            \o SubstituteAll(SubSeq(doc, i + Len(Placeholder(name)), Len(doc)))

\* C6: in the rendered document each placeholder of the template stands
\* replaced by its token's value, verbatim.
C6_ValuesVerbatim ==
    Rendered => template = SubstituteAll(template_file)

Unknown == "{unknown_token}"

RECURSIVE Join(_, _)
Join(pieces, sep) ==
    IF Len(pieces) = 1 THEN pieces[1]
    ELSE pieces[1] \o sep \o Join(Tail(pieces), sep)

C7_Final ==
    Rendered =>
        /\ exit = "running"
        /\ Cardinality(Occurrences(template, Unknown))
             >= Cardinality(Occurrences(template_file, Unknown))
        /\ (\A name \in TokenNames : ~Contains(template_file, Placeholder(name)))
             => template = template_file
        /\ (template_file = ExampleTemplate /\ tokens["n_cards"] = "2")
             => template = "2 and {unknown_token}"

\* A step of the rendering loop rewrites the text between the unknown
\* placeholders and keeps each of them where it is.
C7_Step ==
    (pc = "replace" /\ pc' = "replace") =>
        \E token \in pending :
            LET pieces == Split(template, Unknown) IN
            template' =
                Join([k \in DOMAIN pieces |->
                        Replace(pieces[k], Placeholder(token), tokens[token])],
                     Unknown)

\* C7: a placeholder with no entry in the token map stays in the output as
\* it is and raises no error; a template without known placeholders renders
\* unchanged; "{n_cards} and {unknown_token}" with n_cards "2" renders as
\* "2 and {unknown_token}".
C7_UnknownLeftLiteral == []C7_Final /\ [][C7_Step]_vars

C7_Witness ==
    /\ Rendered
    /\ template_file = ExampleTemplate
    /\ n_cards = 2
    /\ template = "2 and {unknown_token}"

\* The counters of lines 96-105 after the loop has run over seq.
RECURSIVE Aggregate(_)
Aggregate(seq) ==
    IF seq = <<>> THEN [total |-> 0, learned |-> 0]
    ELSE LET before == Aggregate(SubSeq(seq, 1, Len(seq) - 1))
             card == ExtractCard(seq[Len(seq)]).card
         IN [total |-> before.total + 1,
             learned |-> IF Learned(card) THEN before.learned + 1 ELSE before.learned]

Reorderings(n) == {p \in [1..n -> 1..n] : \A i, j \in 1..n : p[i] = p[j] => i = j}

\* C8: as long as every row was valid, total is the number of rows, learned
\* the number of rows with code 2, and every reordering of the rows gives
\* the same two counts.
C8_Counts ==
    exit \notin RowFailures =>
        /\ n_cards = Len(rows)
        /\ n_learned = Cardinality({i \in 1..Len(rows) : rows[i].queue = 2})
        /\ \A p \in Reorderings(Len(rows)) :
            Aggregate([i \in 1..Len(rows) |-> rows[p[i]]])
                = [total |-> n_cards, learned |-> n_learned]

C8_Witness ==
    /\ pc = "template"
    /\ rows = <<Braces, Japan>>
    /\ n_cards = 2
    /\ n_learned = 1

\* a <= b for two naturals in binary without leading zeros.
BitsLe(a, b) ==
    \/ Len(a) < Len(b)
    \/ /\ Len(a) = Len(b)
       /\ \/ a = b
          \/ \E i \in 1..Len(a) :
                /\ a[i] < b[i]
                /\ \A j \in 1..(i - 1) : a[j] = b[j]

\* C9: learned never exceeds total, and once computed for total > 0 the
\* percentage is the f64 of learned / total * 100 (within a hundredth of the
\* exact ratio) and lies between 0 and 100; the f64 of the model carries no
\* sign, the counts being unsigned.
C9_LearnedBounded ==
    /\ n_learned <= n_cards
    /\ (learned_percentage # Unset /\ n_cards > 0) =>
        /\ learned_percentage.kind = "finite"
        /\ learned_percentage.scale >= 0
        /\ BitsLe(Significant(learned_percentage.mant),
                  ShiftLeft(NatBits(100), learned_percentage.scale))
        /\ LET h == Hundredths(learned_percentage) IN
            /\ (h - 1) * n_cards <= 10000 * n_learned
            /\ 10000 * n_learned <= (h + 1) * n_cards

C9_Witness ==
    /\ n_cards = 2
    /\ n_learned = 1
    /\ learned_percentage.kind = "finite"
    /\ Hundredths(learned_percentage) = 5000
    /\ "learned_percentage_pretty" \in DOMAIN tokens
    /\ tokens["learned_percentage_pretty"] = "50.00"

\* The state class the specification names for a valid code.
ClassOfCode(c) ==
    CASE c = 0 -> "new"
      [] c = 1 -> "learning"
      [] c = 3 -> "learning"
      [] c = 2 -> "review"

RECURSIVE Concat(_)
Concat(pieces) ==
    IF pieces = <<>> THEN "" ELSE Head(pieces) \o Concat(Tail(pieces))

\* The text at the end of s, n characters long.
Suffix(s, n) == SubSeq(s, Len(s) - n + 1, Len(s))

\* The rows whose fragment is one <a ...>...</a> element carrying the
\* row's state class, reps and lapses.
FaithfullyRendered ==
    {row \in RawRows :
        /\ ExtractCard(row).kind = "Ok"
        /\ Len(ExtractCard(row).card.fields) >= 3
        /\ row.queue \in ValidCodes
        /\ LET fragment == Fragment(ExtractCard(row).card) IN
            /\ Occurrences(fragment, "<a href=") = {1}
            /\ Suffix(fragment, 5) = "</a>\n"
            /\ Contains(fragment, "<div class='card card-" \o ClassOfCode(row.queue) \o "'>")
            /\ Contains(fragment, " reviews: " \o ToDecimal(row.reps) \o "<br/>")
            /\ Contains(fragment, " lapses: " \o ToDecimal(row.lapses) \o "<br/>")}

\* C10: as long as every row was valid, cards is one fragment per row in
\* the order of delivery, and the i-th fragment carries the i-th row's
\* state class, reps and lapses.
C10_FragmentsInOrder ==
    exit \notin RowFailures =>
        /\ cards = Concat([i \in 1..Len(rows) |-> Fragment(ExtractCard(rows[i]).card)])
        /\ \A i \in 1..Len(rows) : rows[i] \in FaithfullyRendered

C10_Witness ==
    /\ rows = <<Japan, Cat>>
    /\ pc = "template"
    /\ Len(Split(cards, "</a>\n")) = 3

====
